---- MODULE Spec2Model ----
(***************************************************************************)
(* Drone animation and control of quad-tok: propeller drive, attitude      *)
(* (tilt) controller and hover oscillator of drone-animations.js, driven   *)
(* by the host's requestAnimationFrame queue.                              *)
(*                                                                         *)
(* Numbers.  A JavaScript value is a record [k, s, e, m]: k = "num" is the *)
(* IEEE-754 double s * m * 2^e; the other kinds are the non-numbers the    *)
(* code can produce (NaN, undefined, a function or object reached through  *)
(* the prototype chain).  Speeds, rotor yaw, tilt and the integrator's     *)
(* accumulators are doubles, rounded after every operation as in the code. *)
(* Positions and the hover phase are fixed-point integers (see PosUnit).   *)
(***************************************************************************)
EXTENDS Integers, Sequences, FiniteSets, TLC

\* ------------------------------------------------------------------ bounds
\* setSpeed/accelerate/decelerate calls explored per behaviour
MaxSpeedCalls ==
    3
\* tilt operations explored per behaviour
MaxTiltCalls ==
    4
\* frame-callback handles the host hands out before scheduling is no longer explored
MaxHandles ==
    4
\* consecutive tiltForward() calls explored per behaviour
MaxForwardCalls ==
    340
\* consecutive stabilize() calls explored per behaviour
MaxStabilizeCalls ==
    14500
\* determineMovement frames and key events explored per behaviour, any keys held
MaxMoveFrames ==
    3
MaxKeyEvents ==
    1
\* determineMovement frames explored per behaviour with at most 'up' held
MaxHoldFrames ==
    24

\* nodes of the drone models explored for rotor discovery by position
MaxNodes ==
    5

\* ------------------------------------------------------------ JS numbers
\* A JS number is an IEEE-754 double: sign s, and magnitude M * 2^e with the
\* 53-bit significand M held as four base-2^14 limbs, least significant first.
\* Every operation computes the exact result and rounds it to nearest, ties to
\* even, as the hardware does; subnormals are kept, results stay far from the
\* overflow threshold, and the sign of zero is not distinguished.
Abs(i) ==
    IF i < 0 THEN -i ELSE i

Min(a, b) ==
    IF a < b THEN a ELSE b

Max(a, b) ==
    IF a < b THEN b ELSE a

LimbBits ==
    14

Base ==
    2 ^ LimbBits

Pow2 ==
    [i \in 0..LimbBits |-> 2 ^ i]

\* significand width and the exponent of the smallest subnormal
Precision ==
    53

Emin ==
    -1074

\* limbs of a natural number whose digits may exceed the base
RECURSIVE Carry(_, _)
Carry(digits, c) ==
    IF digits = <<>>
    THEN IF c = 0 THEN <<>> ELSE <<c % Base>> \o Carry(<<>>, c \div Base)
    ELSE LET t == Head(digits) + c
         IN  <<t % Base>> \o Carry(Tail(digits), t \div Base)

RECURSIVE Trim(_)
Trim(N) ==
    IF N = <<>> \/ N[Len(N)] # 0 THEN N ELSE Trim(SubSeq(N, 1, Len(N) - 1))

Limb(N, i) ==
    IF i \in 1..Len(N) THEN N[i] ELSE 0

Pad(N, len) ==
    [i \in 1..len |-> Limb(N, i)]

BitLen(N) ==
    LET T == Trim(N)
    IN  IF T = <<>> THEN 0
        ELSE LimbBits * (Len(T) - 1)
             + (CHOOSE b \in 1..LimbBits : Pow2[b - 1] <= T[Len(T)] /\ T[Len(T)] < Pow2[b])

\* N * 2^k
ShiftLeft(N, k) ==
    LET r == k % LimbBits
    IN  [i \in 1..(k \div LimbBits) |-> 0] \o Carry([i \in 1..Len(N) |-> N[i] * Pow2[r]], 0)

\* floor(N / 2^k)
ShiftRight(N, k) ==
    LET q == k \div LimbBits
        r == k % LimbBits
    IN  IF q >= Len(N) THEN <<>>
        ELSE [i \in 1..(Len(N) - q) |->
                 (N[i + q] \div Pow2[r]) + (Limb(N, i + q + 1) % Pow2[r]) * Pow2[LimbBits - r]]

\* bit j of N, and whether any bit below j is set
Bit(N, j) ==
    (Limb(N, j \div LimbBits + 1) \div Pow2[j % LimbBits]) % 2

LowBitsSet(N, j) ==
    \E i \in 1..Len(N) :
        \/ i - 1 < j \div LimbBits /\ N[i] # 0
        \/ i - 1 = j \div LimbBits /\ N[i] % Pow2[j % LimbBits] # 0

AddN(A, B) ==
    Carry([i \in 1..Max(Len(A), Len(B)) |-> Limb(A, i) + Limb(B, i)], 0)

\* A - B for A >= B
RECURSIVE Borrow(_, _, _, _)
Borrow(A, B, i, b) ==
    IF i > Len(A) THEN <<>>
    ELSE LET t == A[i] - Limb(B, i) - b
         IN  IF t < 0 THEN <<t + Base>> \o Borrow(A, B, i + 1, 1)
                      ELSE <<t>> \o Borrow(A, B, i + 1, 0)

SubN(A, B) ==
    Borrow(A, B, 1, 0)

\* -1, 0, 1 as A is below, equal to, above B
RECURSIVE CmpFrom(_, _, _)
CmpFrom(A, B, i) ==
    IF i = 0 THEN 0
    ELSE IF Limb(A, i) < Limb(B, i) THEN -1
    ELSE IF Limb(A, i) > Limb(B, i) THEN 1
    ELSE CmpFrom(A, B, i - 1)

CmpN(A, B) ==
    CmpFrom(A, B, Max(Len(A), Len(B)))

\* the product of two four-limb significands
MulN(A, B) ==
    Carry(<<A[1] * B[1],
            A[1] * B[2] + A[2] * B[1],
            A[1] * B[3] + A[2] * B[2] + A[3] * B[1],
            A[1] * B[4] + A[2] * B[3] + A[3] * B[2] + A[4] * B[1],
            A[2] * B[4] + A[3] * B[3] + A[4] * B[2],
            A[3] * B[4] + A[4] * B[3],
            A[4] * B[4]>>, 0)

Zero ==
    [k |-> "num", s |-> 1, e |-> Emin, m |-> <<0, 0, 0, 0>>]

IsZero(v) ==
    v.m = <<0, 0, 0, 0>>

\* the double nearest to s * (N + f) * 2^e, where 0 <= f < 1 and f > 0 iff sticky
Round(s, N, e, sticky) ==
    LET L == BitLen(N)
        k == Max(L - Precision, Emin - e)
    IN  IF k <= 0
        THEN IF L = 0 THEN Zero
             ELSE LET sh == Min(Precision - L, e - Emin)
                  IN  [k |-> "num", s |-> s, e |-> e - sh, m |-> Pad(ShiftLeft(N, sh), 4)]
        ELSE LET q  == ShiftRight(N, k)
                 up == /\ Bit(N, k - 1) = 1
                       /\ (sticky \/ LowBitsSet(N, k - 1) \/ Bit(q, 0) = 1)
                 r  == IF up THEN AddN(q, <<1>>) ELSE q
             IN  IF BitLen(r) > Precision
                 THEN [k |-> "num", s |-> s, e |-> e + k + 1, m |-> Pad(ShiftRight(r, 1), 4)]
                 ELSE IF BitLen(r) = 0 THEN Zero
                 ELSE [k |-> "num", s |-> s, e |-> e + k, m |-> Pad(r, 4)]

\* quotient and remainder of a limb sequence by a divisor below the base
RECURSIVE DivSmall(_, _, _, _)
DivSmall(N, d, i, rem) ==
    IF i = 0 THEN [q |-> <<>>, r |-> rem]
    ELSE LET t    == rem * Base + N[i]
             rest == DivSmall(N, d, i - 1, t % d)
         IN  [q |-> rest.q \o <<t \div d>>, r |-> rest.r]

\* the double nearest to the rational n/d, as a decimal literal denotes it
Num(n, d) ==
    LET nd == DivSmall(<<0, 0, 0, 0, 0, Abs(n)>>, Abs(d), 6, 0)
    IN  Round(IF (n < 0) = (d < 0) THEN 1 ELSE -1, nd.q, -5 * LimbBits, nd.r # 0)

NaN ==
    [k |-> "NaN", s |-> 1, e |-> Emin, m |-> <<0, 0, 0, 0>>]

Undefined ==
    [k |-> "undefined", s |-> 1, e |-> Emin, m |-> <<0, 0, 0, 0>>]

\* a function object, such as Object.prototype.toString
FunctionObject ==
    [k |-> "function", s |-> 1, e |-> Emin, m |-> <<0, 0, 0, 0>>]

IsNum(v) ==
    v.k = "num"

\* ToBoolean: undefined, NaN and 0 are falsy; objects and nonzero numbers truthy
Truthy(v) ==
    \/ v.k = "function"
    \/ v.k = "num" /\ ~IsZero(v)

\* ToNumber: a function object or undefined converts to NaN
ToNumber(v) ==
    IF IsNum(v) THEN v ELSE NaN

\* -a
Neg(a) ==
    IF IsNum(a) /\ ~IsZero(a) THEN [a EXCEPT !.s = -a.s] ELSE a

\* -1, 0, 1 as |a| is below, equal to, above |b|
CmpMag(a, b) ==
    IF a.e < b.e THEN -1
    ELSE IF a.e > b.e THEN 1
    ELSE CmpN(a.m, b.m)

\* a * b
Mul(a, b) ==
    LET x == ToNumber(a)
        y == ToNumber(b)
    IN  IF IsNum(x) /\ IsNum(y)
        THEN Round(x.s * y.s, MulN(x.m, y.m), x.e + y.e, FALSE)
        ELSE NaN

\* x + y for doubles with x.e >= y.e
AddAligned(x, y) ==
    IF x.e - y.e > Precision + 2 THEN x
    ELSE LET X    == ShiftLeft(x.m, x.e - y.e)
             same == x.s = y.s
             over == CmpN(X, y.m) >= 0
             A    == IF same \/ over THEN X ELSE y.m
             B    == IF same \/ over THEN y.m ELSE X
         IN  Round(IF same \/ over THEN x.s ELSE y.s,
                   IF same THEN AddN(A, B) ELSE SubN(A, B), y.e, FALSE)

\* a + b
Add(a, b) ==
    LET x == ToNumber(a)
        y == ToNumber(b)
        swap == x.e < y.e
    IN  IF IsNum(x) /\ IsNum(y)
        THEN AddAligned(IF swap THEN y ELSE x, IF swap THEN x ELSE y)
        ELSE NaN

\* a - b
Sub(a, b) ==
    Add(a, Neg(b))

\* a < b and a <= b; any comparison with a non-number is false
Lt(a, b) ==
    /\ IsNum(a)
    /\ IsNum(b)
    /\ IF a.s # b.s THEN a.s < b.s
       ELSE IF a.s = 1 THEN CmpMag(a, b) < 0 ELSE CmpMag(a, b) > 0

Le(a, b) ==
    IsNum(a) /\ IsNum(b) /\ ~Lt(b, a)

\* Math.min / Math.max: NaN if either argument converts to NaN
MathMin(a, b) ==
    LET x == ToNumber(a)
        y == ToNumber(b)
    IN  IF ~IsNum(x) \/ ~IsNum(y) THEN NaN ELSE IF Lt(y, x) THEN y ELSE x

MathMax(a, b) ==
    LET x == ToNumber(a)
        y == ToNumber(b)
    IN  IF ~IsNum(x) \/ ~IsNum(y) THEN NaN ELSE IF Lt(x, y) THEN y ELSE x

\* ------------------------------------------------------------ fixed point
\* position.x/y/z are integers in units of 1e-7; time is in milliseconds;
\* config.amplitude, frequency and lateralAmount are in thousandths;
\* angles passed to Math.sin / Math.cos are in millionths of a radian.
Million ==
    1000 * 1000

PosUnit ==
    10 * Million

\* Math.sin on millionths of a radian, result in millionths (x - x^3/6)
MathSin(p) ==
    p - (((p * p) \div Million) * p) \div (6 * Million)

\* Math.cos on millionths of a radian, result in millionths (1 - x^2/2)
MathCos(q) ==
    Million - (q * q) \div (2 * Million)

\* ------------------------------------------------------------------ state
VARIABLES
    propellers,      \* setupPropellerAnimation: the rotor meshes found, each with its rotation.y
    currentSpeed,    \* setupPropellerAnimation: rad/frame
    isAnimating,     \* setupPropellerAnimation: the drive's active flag
    currentTilt,     \* setupDroneTilt: [x |-> pitch, z |-> roll]
    config,          \* setupHoverEffect: [amplitude, frequency, lateralAmount]
    baseY,           \* setupHoverEffect: base altitude
    time,            \* setupHoverEffect: phase accumulator
    isActive,        \* setupHoverEffect: the oscillator's active flag
    animationFrame,  \* setupHoverEffect: last handle got from requestAnimationFrame, 0 = undefined
    position,        \* droneModel.position
    rotation,        \* droneModel.rotation
    rafQueue,        \* host: callbacks scheduled with requestAnimationFrame, in order
    nextHandle,      \* host: the handle the next requestAnimationFrame returns
    activeKeysPressed,        \* game: key codes held, in the order pressed
    doubleSpeed,              \* game: speed mode
    flyingIn,                 \* game: scripted fly-in in progress
    movingCharDueToDistance,  \* game: the drone is being repositioned
    charPosYIncrement,        \* game: vertical-speed accumulator
    charRotateYIncrement,     \* game: rotational-speed accumulator
    charRotateYMax,           \* game: cap of the rotational accumulator
    camera,                   \* game: [thirdPerson, camY, camZ]
    calls,           \* history: controller operations invoked by the last determineMovement, in order
    moveCalls,       \* history: determineMovement frames so far
    keyCalls,        \* history: key events so far
    last,            \* history: the last operation, its argument and the state it was called in
    expectedBase,    \* history: position.y at the last effective hover start, or the last setBaseHeight argument
    speedCalls,      \* history: setSpeed/accelerate/decelerate calls so far
    tiltCalls        \* history: tilt operations so far

prog ==
    <<propellers, currentSpeed, isAnimating, currentTilt, config, baseY, time, isActive,
      animationFrame, position, rotation, rafQueue, nextHandle, activeKeysPressed,
      doubleSpeed, flyingIn, movingCharDueToDistance, charPosYIncrement,
      charRotateYIncrement, charRotateYMax, camera, calls, moveCalls, keyCalls>>

vars ==
    <<prog, last, expectedBase, speedCalls, tiltCalls>>

\* the program state as one record, threaded through the operations below
World ==
    [propellers |-> propellers, currentSpeed |-> currentSpeed, isAnimating |-> isAnimating,
     currentTilt |-> currentTilt, config |-> config, baseY |-> baseY, time |-> time,
     isActive |-> isActive, animationFrame |-> animationFrame, position |-> position,
     rotation |-> rotation, rafQueue |-> rafQueue, nextHandle |-> nextHandle,
     activeKeysPressed |-> activeKeysPressed, doubleSpeed |-> doubleSpeed,
     flyingIn |-> flyingIn, movingCharDueToDistance |-> movingCharDueToDistance,
     charPosYIncrement |-> charPosYIncrement, charRotateYIncrement |-> charRotateYIncrement,
     charRotateYMax |-> charRotateYMax, camera |-> camera, calls |-> calls,
     moveCalls |-> moveCalls,
     keyCalls |-> keyCalls]

\* the next state is the record w
Becomes(w) ==
    /\ propellers' = w.propellers
    /\ currentSpeed' = w.currentSpeed
    /\ isAnimating' = w.isAnimating
    /\ currentTilt' = w.currentTilt
    /\ config' = w.config
    /\ baseY' = w.baseY
    /\ time' = w.time
    /\ isActive' = w.isActive
    /\ animationFrame' = w.animationFrame
    /\ position' = w.position
    /\ rotation' = w.rotation
    /\ rafQueue' = w.rafQueue
    /\ nextHandle' = w.nextHandle
    /\ activeKeysPressed' = w.activeKeysPressed
    /\ doubleSpeed' = w.doubleSpeed
    /\ flyingIn' = w.flyingIn
    /\ movingCharDueToDistance' = w.movingCharDueToDistance
    /\ charPosYIncrement' = w.charPosYIncrement
    /\ charRotateYIncrement' = w.charRotateYIncrement
    /\ charRotateYMax' = w.charRotateYMax
    /\ camera' = w.camera
    /\ calls' = w.calls
    /\ moveCalls' = w.moveCalls
    /\ keyCalls' = w.keyCalls

\* ------------------------------------------------------------------- host
\* requestAnimationFrame(fn): queue fn for the next frame; the handle returned is w.nextHandle
requestAnimationFrame(w, fn) ==
    [w EXCEPT !.rafQueue = Append(@, [id |-> w.nextHandle, fn |-> fn]),
              !.nextHandle = @ + 1]

\* cancelAnimationFrame(id): drop the callback with that handle, if it is still queued
cancelAnimationFrame(w, id) ==
    [w EXCEPT !.rafQueue = SelectSeq(@, LAMBDA c : c.id # id)]

\* -------------------------------------------------------- PropellerDrive
defaultPropNames ==
    <<"propeller_front_left", "propeller_front_right",
      "propeller_back_left", "propeller_back_right">>

\* rotationSpeeds, the object literal: its own properties
rotationSpeeds ==
    [idle |-> Num(1, 10), slow |-> Num(15, 100), medium |-> Num(25, 100), fast |-> Num(4, 10)]

\* a property name every object literal inherits from Object.prototype
ObjectPrototypeNames ==
    {"constructor"}

\* rotationSpeeds[speedLevel]: an own property, else one inherited through the
\* prototype chain (a function object), else undefined
rotationSpeedsGet(speedLevel) ==
    IF speedLevel \in DOMAIN rotationSpeeds THEN rotationSpeeds[speedLevel]
    ELSE IF speedLevel \in ObjectPrototypeNames THEN FunctionObject
    ELSE Undefined

\* propNames.forEach(name => { prop = droneModel.getObjectByName(name); if (prop) push })
\* for a model whose nodes are named `nodes`; every rotor starts at rotation.y = 0
RECURSIVE findPropellers(_, _)
findPropellers(propNames, nodes) ==
    IF propNames = <<>> THEN <<>>
    ELSE LET rest == findPropellers(Tail(propNames), nodes)
         IN  IF Head(propNames) \in nodes
             THEN <<[name |-> Head(propNames), rotationY |-> Num(0, 1)]>> \o rest
             ELSE rest

rotatePropellers_SameWay(props, speed) ==
    [index \in DOMAIN props |-> [props[index] EXCEPT !.rotationY = Add(@, speed)]]

\* propellers.forEach((prop, index) => prop.rotation.y += currentSpeed * direction)
rotatePropellers(props, speed) ==
    [index \in DOMAIN props |->
        LET direction == IF (index - 1) % 2 = 0 THEN Num(1, 1) ELSE Num(-1, 1)
        IN  [props[index] EXCEPT !.rotationY = Add(@, Mul(speed, direction))]]

\* animatePropellers, a mutation: the isAnimating guard is missing
animatePropellers_Unguarded(w) ==
    requestAnimationFrame(
        [w EXCEPT !.propellers = rotatePropellers(@, w.currentSpeed)],
        "animatePropellers")

\* animatePropellers, a mutation: without rotors the callback gives up
animatePropellers_NeedsRotors(w) ==
    IF ~w.isAnimating \/ Len(w.propellers) = 0 THEN w
    ELSE requestAnimationFrame(
             [w EXCEPT !.propellers = rotatePropellers(@, w.currentSpeed)],
             "animatePropellers")

animatePropellers(w) ==
    IF ~w.isAnimating THEN w
    ELSE requestAnimationFrame(
             [w EXCEPT !.propellers = rotatePropellers(@, w.currentSpeed)],
             "animatePropellers")

propellerAnimation_start(w) ==
    animatePropellers([w EXCEPT !.isAnimating = TRUE])

propellerAnimation_stop(w) ==
    [w EXCEPT !.isAnimating = FALSE]

propellerAnimation_setSpeed(w, speedLevel) ==
    IF Truthy(rotationSpeedsGet(speedLevel))
    THEN [w EXCEPT !.currentSpeed = rotationSpeedsGet(speedLevel)]
    ELSE w

propellerAnimation_getSpeed(w) ==
    w.currentSpeed

\* the default arguments of accelerate and decelerate
accelerateDefault ==
    Num(12, 10)

decelerateDefault ==
    Num(8, 10)

propellerAnimation_accelerate(w, factor) ==
    [w EXCEPT !.currentSpeed = MathMin(Mul(w.currentSpeed, factor), rotationSpeeds.fast)]

propellerAnimation_decelerate_NoClamp(w, factor) ==
    [w EXCEPT !.currentSpeed = Mul(w.currentSpeed, factor)]

propellerAnimation_decelerate(w, factor) ==
    [w EXCEPT !.currentSpeed = MathMax(Mul(w.currentSpeed, factor), rotationSpeeds.idle)]

\* ------------------------------------------- rotor discovery by position
\* The setupPropellerAnimation written for the DJI FPV model looks its rotors
\* up by name with findObjectByName and falls back on their position.  A model
\* is the sequence of its nodes in traversal order; a node is a record
\* [id, name, isMesh, x, z, rotationY], x and z being position.x and
\* position.z in tenths.
defaultObjectNames ==
    <<"Object_50", "Object_51", "Object_52", "Object_53",
      "Object_54", "Object_55", "Object_56", "Object_57">>

\* no node: the null that findObjectByName returns, tested by `if (prop)`
NoObject ==
    [id |-> 0, name |-> "", isMesh |-> FALSE, x |-> 0, z |-> 0, rotationY |-> Zero]

\* model.traverse(object => { if (object.name === name) result = object }):
\* the last node of that name
findObjectByName(model, name) ==
    LET matches == {i \in DOMAIN model : model[i].name = name}
    IN  IF matches = {} THEN NoObject
        ELSE model[CHOOSE i \in matches : \A j \in matches : j <= i]

\* Math.sqrt(position.x * position.x + position.z * position.z), squared, in
\* hundredths; Math.sqrt is monotonic, so comparing squares compares distances
distanceSquared(object) ==
    object.x * object.x + object.z * object.z

\* a mutation: any node may be a rotor
isPotentialPropeller_AnyNode(object) ==
    TRUE

\* object.isMesh && distance > 0.5
isPotentialPropeller(object) ==
    object.isMesh /\ distanceSquared(object) > 25

\* potentialPropellers.sort((a, b) => distB - distA): furthest first, nodes at
\* the same distance staying in the order they had (the sort is stable)
RECURSIVE sortFurthestFirst(_)
sortFurthestFirst(objects) ==
    IF objects = <<>> THEN <<>>
    ELSE LET first == Head(objects)
             rest  == sortFurthestFirst(Tail(objects))
             ahead == SelectSeq(rest, LAMBDA o : distanceSquared(o) > distanceSquared(first))
             after == SelectSeq(rest, LAMBDA o : distanceSquared(o) <= distanceSquared(first))
         IN  ahead \o <<first>> \o after

\* findPropellersByPosition: the four furthest candidates
findPropellersByPosition(model) ==
    LET potentialPropellers == sortFurthestFirst(SelectSeq(model, isPotentialPropeller))
    IN  SubSeq(potentialPropellers, 1, Min(4, Len(potentialPropellers)))

\* propNames.forEach(name => { prop = findObjectByName(droneModel, name); if (prop) push })
RECURSIVE findPropellersByName(_, _)
findPropellersByName(model, propNames) ==
    IF propNames = <<>> THEN <<>>
    ELSE LET prop == findObjectByName(model, Head(propNames))
             rest == findPropellersByName(model, Tail(propNames))
         IN  IF prop # NoObject THEN <<prop>> \o rest ELSE rest

\* propellerNames || defaultPropNames: the argument is [defined, names], not
\* defined when the caller passed none; an array, even an empty one, is truthy
propNamesOr(propellerNames) ==
    IF propellerNames.defined THEN propellerNames.names ELSE defaultObjectNames

\* the rotors setupPropellerAnimation(droneModel, propellerNames) ends up with
setupPropellers(droneModel, propellerNames) ==
    LET byName == findPropellersByName(droneModel, propNamesOr(propellerNames))
    IN  IF Len(byName) = 0 THEN findPropellersByPosition(droneModel) ELSE byName

\* ---------------------------------------------------- AttitudeController
maxTiltAngles ==
    [forward |-> Num(2, 10), backward |-> Num(-1, 10),
     left |-> Num(15, 100), right |-> Num(-15, 100)]

tiltFactor_Full ==
    Num(1, 1)

tiltFactor ==
    Num(1, 10)

returnFactor_Full ==
    Num(1, 1)

returnFactor ==
    Num(5, 100)

\* the 0.7 of the combined tilts
combinedFactor ==
    Num(7, 10)

\* updateTilt, a mutation: only the pitch is written to the vehicle
updateTilt_PitchOnly(w) ==
    [w EXCEPT !.rotation.x = w.currentTilt.x]

updateTilt(w) ==
    [w EXCEPT !.rotation.x = w.currentTilt.x, !.rotation.z = w.currentTilt.z]

\* applyTilt, a mutation: the parentheses around (target - current) are missing
applyTilt_NoParentheses(w, targetX, targetZ) ==
    updateTilt([w EXCEPT
        !.currentTilt.x = Add(@, Sub(targetX, Mul(@, tiltFactor))),
        !.currentTilt.z = Add(@, Sub(targetZ, Mul(@, tiltFactor)))])

applyTilt(w, targetX, targetZ) ==
    updateTilt([w EXCEPT
        !.currentTilt.x = Add(@, Mul(Sub(targetX, @), tiltFactor)),
        !.currentTilt.z = Add(@, Mul(Sub(targetZ, @), tiltFactor))])

returnToLevel(w) ==
    updateTilt([w EXCEPT
        !.currentTilt.x = Mul(@, Sub(Num(1, 1), returnFactor)),
        !.currentTilt.z = Mul(@, Sub(Num(1, 1), returnFactor))])

\* tiltForward, a mutation: the roll is steered to level instead of kept
tiltForward_LevelsRoll(w) ==
    applyTilt(w, maxTiltAngles.forward, Num(0, 1))

tiltForward(w) ==
    applyTilt(w, maxTiltAngles.forward, w.currentTilt.z)

tiltBackward(w) ==
    applyTilt(w, maxTiltAngles.backward, w.currentTilt.z)

tiltLeft(w) ==
    applyTilt(w, w.currentTilt.x, maxTiltAngles.left)

tiltRight(w) ==
    applyTilt(w, w.currentTilt.x, maxTiltAngles.right)

tiltForwardLeft(w) ==
    applyTilt(w, Mul(maxTiltAngles.forward, combinedFactor), Mul(maxTiltAngles.left, combinedFactor))

tiltForwardRight(w) ==
    applyTilt(w, Mul(maxTiltAngles.forward, combinedFactor), Mul(maxTiltAngles.right, combinedFactor))

tiltBackwardLeft(w) ==
    applyTilt(w, Mul(maxTiltAngles.backward, combinedFactor), Mul(maxTiltAngles.left, combinedFactor))

tiltBackwardRight(w) ==
    applyTilt(w, Mul(maxTiltAngles.backward, combinedFactor), Mul(maxTiltAngles.right, combinedFactor))

stabilize(w) ==
    returnToLevel(w)

getCurrentTilt(w) ==
    [x |-> w.currentTilt.x, z |-> w.currentTilt.z]

resetTilt(w) ==
    updateTilt([w EXCEPT !.currentTilt.x = Num(0, 1), !.currentTilt.z = Num(0, 1)])

\* the tilt operations by name
TiltOps ==
    {"tiltForward", "tiltBackward", "tiltLeft", "tiltRight", "tiltForwardLeft",
     "tiltForwardRight", "tiltBackwardLeft", "tiltBackwardRight", "stabilize", "resetTilt"}

droneTilt(w, op) ==
    CASE op = "tiltForward" -> tiltForward(w)
      [] op = "tiltBackward" -> tiltBackward(w)
      [] op = "tiltLeft" -> tiltLeft(w)
      [] op = "tiltRight" -> tiltRight(w)
      [] op = "tiltForwardLeft" -> tiltForwardLeft(w)
      [] op = "tiltForwardRight" -> tiltForwardRight(w)
      [] op = "tiltBackwardLeft" -> tiltBackwardLeft(w)
      [] op = "tiltBackwardRight" -> tiltBackwardRight(w)
      [] op = "stabilize" -> stabilize(w)
      [] op = "resetTilt" -> resetTilt(w)

\* -------------------------------------------------------- HoverOscillator
\* setupHoverEffect's config: option || default, in thousandths (0 = not given)
hoverConfig(options) ==
    [amplitude |-> IF options.amplitude # 0 THEN options.amplitude ELSE 50,
     frequency |-> IF options.frequency # 0 THEN options.frequency ELSE 3,
     lateralAmount |-> IF options.lateralAmount # 0 THEN options.lateralAmount ELSE 25]

\* time += 0.016, in milliseconds
frameTime ==
    16

\* Math.sin(time * config.frequency) * config.amplitude, in position units
verticalOffset(w, t) ==
    (MathSin(t * w.config.frequency) * w.config.amplitude) \div 100

\* Math.cos(time * config.frequency * 0.7) * config.lateralAmount, in position units
lateralOffset(w, t) ==
    (MathCos((t * w.config.frequency * 7) \div 10) * w.config.lateralAmount) \div 100

\* updateHover, a mutation: the isActive guard is missing
updateHover_Unguarded(w) ==
    LET t  == w.time + frameTime
        w1 == [w EXCEPT !.time = t,
                        !.position.y = w.baseY + verticalOffset(w, t),
                        !.position.x = @ + lateralOffset(w, t) \div 100]
    IN  [requestAnimationFrame(w1, "updateHover") EXCEPT !.animationFrame = w1.nextHandle]

updateHover(w) ==
    IF ~w.isActive THEN w
    ELSE LET t  == w.time + frameTime
             w1 == [w EXCEPT !.time = t,
                             !.position.y = w.baseY + verticalOffset(w, t),
                             !.position.x = @ + lateralOffset(w, t) \div 100]
         IN  [requestAnimationFrame(w1, "updateHover") EXCEPT !.animationFrame = w1.nextHandle]

\* hoverEffect.start, a mutation: the `if (isActive) return` is missing
hoverEffect_start_Unguarded(w) ==
    updateHover([w EXCEPT !.baseY = w.position.y, !.isActive = TRUE])

\* hoverEffect.start, a mutation: a restart rewinds the phase
hoverEffect_start_Rewinds(w) ==
    IF w.isActive THEN w
    ELSE updateHover([w EXCEPT !.baseY = w.position.y, !.isActive = TRUE, !.time = 0])

hoverEffect_start(w) ==
    IF w.isActive THEN w
    ELSE updateHover([w EXCEPT !.baseY = w.position.y, !.isActive = TRUE])

\* hoverEffect.stop, a mutation: position.y is left where the wave put it
hoverEffect_stop_Frozen(w) ==
    LET w1 == [w EXCEPT !.isActive = FALSE]
    IN  IF w1.animationFrame # 0 THEN cancelAnimationFrame(w1, w1.animationFrame) ELSE w1

hoverEffect_stop(w) ==
    LET w1 == [w EXCEPT !.isActive = FALSE]
        w2 == IF w1.animationFrame # 0 THEN cancelAnimationFrame(w1, w1.animationFrame) ELSE w1
    IN  [w2 EXCEPT !.position.y = w2.baseY]

hoverEffect_setBaseHeight(w, height) ==
    [w EXCEPT !.baseY = height]

\* updateConfig, a mutation: the fields not given fall back to their defaults
hoverEffect_updateConfig_Replace(w, newConfig) ==
    [w EXCEPT !.config = [f \in DOMAIN w.config |->
                             IF f \in DOMAIN newConfig THEN newConfig[f]
                             ELSE hoverConfig([amplitude |-> 0, frequency |-> 0,
                                               lateralAmount |-> 0])[f]]]

\* Object.assign(config, newConfig): newConfig as a function from some field names to values
hoverEffect_updateConfig(w, newConfig) ==
    [w EXCEPT !.config = [f \in DOMAIN w.config |->
                             IF f \in DOMAIN newConfig THEN newConfig[f] ELSE w.config[f]]]

\* ------------------------------------------------------------ host frame
\* one callback of the queue
runCallback(w, fn) ==
    CASE fn = "animatePropellers" -> animatePropellers(w)
      [] fn = "updateHover" -> updateHover(w)

\* the callbacks of one frame, in the order they were scheduled
RECURSIVE runCallbacks(_, _)
runCallbacks(w, batch) ==
    IF batch = <<>> THEN w
    ELSE runCallbacks(runCallback(w, Head(batch).fn), Tail(batch))

\* one host frame: every callback scheduled before the frame runs once; what
\* they schedule waits for the next frame
runFrame(w) ==
    runCallbacks([w EXCEPT !.rafQueue = <<>>], w.rafQueue)

\* ---------------------------------------------------- MovementIntegrator
\* key codes of the arrow keys, the space bar and Z
KeyLeft ==
    37

KeyUp ==
    38

KeyRight ==
    39

KeyDown ==
    40

KeySpace ==
    32

KeyZ ==
    90

\* activeKeysPressed.includes(keyCode)
includes(keys, keyCode) ==
    \E i \in 1..Len(keys) : keys[i] = keyCode

\* the double v in units of 1e-7, rounded to the nearest unit
ToFixed(v) ==
    LET T == Carry([i \in 1..4 |-> v.m[i] * 10000], 0)
        N == Carry([i \in 1..Len(T) |-> T[i] * 1000], 0)
        q == ShiftRight(N, -v.e)
        r == Limb(q, 1) + Limb(q, 2) * Base + Bit(N, -v.e - 1)
    IN  v.s * r

\* character.translateZ(distance): the drone advances along its own forward
\* axis; position.z is the distance covered
translateZ(w, distance) ==
    [w EXCEPT !.position.z = @ + distance]

\* character.rotateY(angle): the drone turns about its own vertical axis;
\* rotation.y is the angle turned
rotateY(w, angle) ==
    [w EXCEPT !.rotation.y = Add(@, angle)]

\* a call of droneTilt.<op>() or propellerAnimation.<op>() from determineMovement,
\* entered in the log of the frame
invoked(w, op) ==
    [w EXCEPT !.calls = Append(@, op)]

invokeAccelerate(w) ==
    invoked(propellerAnimation_accelerate(w, accelerateDefault), "accelerate")

invokeDecelerate(w) ==
    invoked(propellerAnimation_decelerate(w, decelerateDefault), "decelerate")

upperAltitude ==
    90 * PosUnit

lowerAltitude ==
    27 * PosUnit

charPosYStep ==
    Num(2, 100)

charPosYMax ==
    Num(3, 10)

charRotateYStep ==
    Num(5, 10000)

\* charPosYIncrement += 0.02 while it is below 0.3
rampVertical(w) ==
    IF Lt(w.charPosYIncrement, charPosYMax)
    THEN [w EXCEPT !.charPosYIncrement = Add(@, charPosYStep)]
    ELSE w

\* charRotateYIncrement += 0.0005 while it is below charRotateYMax
rampRotational(w) ==
    IF Lt(w.charRotateYIncrement, w.charRotateYMax)
    THEN [w EXCEPT !.charRotateYIncrement = Add(@, charRotateYStep)]
    ELSE w

\* the up-arrow block, a mutation: the ceiling is not consulted
moveUp_NoCeiling(w) ==
    IF includes(w.activeKeysPressed, KeyUp)
    THEN invokeAccelerate(invoked(tiltForward(rampVertical(
             [w EXCEPT !.position.y = @ + ToFixed(w.charPosYIncrement)])), "tiltForward"))
    ELSE w

\* if(activeKeysPressed.includes(38)) { ... }
moveUp(w) ==
    IF includes(w.activeKeysPressed, KeyUp) /\ w.position.y < upperAltitude
    THEN invokeAccelerate(invoked(tiltForward(rampVertical(
             [w EXCEPT !.position.y = @ + ToFixed(w.charPosYIncrement)])), "tiltForward"))
    ELSE w

\* the down-arrow block, a mutation: the repositioning flag is not consulted
moveDown_IgnoresFlag(w) ==
    IF includes(w.activeKeysPressed, KeyDown) /\ w.position.y > lowerAltitude
    THEN invokeAccelerate(invoked(tiltBackward(rampVertical(
             [w EXCEPT !.position.y = @ - ToFixed(w.charPosYIncrement)])), "tiltBackward"))
    ELSE w

\* if(activeKeysPressed.includes(40) && !movingCharDueToDistance) { ... }
moveDown(w) ==
    IF /\ includes(w.activeKeysPressed, KeyDown)
       /\ ~w.movingCharDueToDistance
       /\ w.position.y > lowerAltitude
    THEN invokeAccelerate(invoked(tiltBackward(rampVertical(
             [w EXCEPT !.position.y = @ - ToFixed(w.charPosYIncrement)])), "tiltBackward"))
    ELSE w

\* if(activeKeysPressed.includes(37)) { ... }
turnLeft(w) ==
    IF includes(w.activeKeysPressed, KeyLeft)
    THEN invoked(tiltLeft(rampRotational(rotateY(w, w.charRotateYIncrement))), "tiltLeft")
    ELSE w

\* if(activeKeysPressed.includes(39)) { ... }
turnRight(w) ==
    IF includes(w.activeKeysPressed, KeyRight)
    THEN invoked(tiltRight(rampRotational(rotateY(w, Neg(w.charRotateYIncrement)))), "tiltRight")
    ELSE w

\* "Apply compound tilts for diagonal movement"
compoundTilt(w) ==
    LET held(keyCode) == includes(w.activeKeysPressed, keyCode)
    IN  IF held(KeyUp) /\ held(KeyLeft) THEN invoked(tiltForwardLeft(w), "tiltForwardLeft")
        ELSE IF held(KeyUp) /\ held(KeyRight) THEN invoked(tiltForwardRight(w), "tiltForwardRight")
        ELSE IF held(KeyDown) /\ held(KeyLeft) THEN invoked(tiltBackwardLeft(w), "tiltBackwardLeft")
        ELSE IF held(KeyDown) /\ held(KeyRight) THEN invoked(tiltBackwardRight(w), "tiltBackwardRight")
        ELSE w

\* the vertical decay block, a mutation: it slows the rotors but leaves the
\* levelling to the rotational block
slowVertical_NoLevelling(w) ==
    LET held(keyCode) == includes(w.activeKeysPressed, keyCode)
        w1 == IF Lt(Zero, w.charPosYIncrement)
              THEN [w EXCEPT !.charPosYIncrement = Sub(@, charPosYStep)]
              ELSE w
    IN  IF (~held(KeyUp) /\ ~held(KeyDown)) \/ (held(KeyUp) /\ held(KeyDown))
        THEN invokeDecelerate(w1)
        ELSE w

\* "Return to level and slow down when no vertical movement keys are pressed"
slowVertical(w) ==
    LET held(keyCode) == includes(w.activeKeysPressed, keyCode)
        w1 == IF Lt(Zero, w.charPosYIncrement)
              THEN [w EXCEPT !.charPosYIncrement = Sub(@, charPosYStep)]
              ELSE w
        w2 == IF ~held(KeyLeft) /\ ~held(KeyRight) THEN invoked(stabilize(w1), "stabilize") ELSE w1
    IN  IF (~held(KeyUp) /\ ~held(KeyDown)) \/ (held(KeyUp) /\ held(KeyDown))
        THEN invokeDecelerate(w2)
        ELSE w

slowRotational_Ungated(w) ==
    LET held(keyCode) == includes(w.activeKeysPressed, keyCode)
        w1 == IF Lt(Zero, w.charRotateYIncrement)
              THEN [w EXCEPT !.charRotateYIncrement = Sub(@, charRotateYStep)]
              ELSE w
    IN  IF (~held(KeyLeft) /\ ~held(KeyRight)) \/ (held(KeyLeft) /\ held(KeyRight))
        THEN invoked(stabilize(w1), "stabilize")
        ELSE w

\* "Slow down rotation when no horizontal movement keys are pressed"
slowRotational(w) ==
    LET held(keyCode) == includes(w.activeKeysPressed, keyCode)
        w1 == IF Lt(Zero, w.charRotateYIncrement)
              THEN [w EXCEPT !.charRotateYIncrement = Sub(@, charRotateYStep)]
              ELSE w
    IN  IF (~held(KeyLeft) /\ ~held(KeyRight)) \/ (held(KeyLeft) /\ held(KeyRight))
        THEN IF ~held(KeyUp) /\ ~held(KeyDown) THEN invoked(stabilize(w1), "stabilize") ELSE w1
        ELSE w

\* the forward step of a frame: 1 in speed mode, else 0.4
forwardStep(w) ==
    IF w.doubleSpeed THEN PosUnit ELSE (4 * PosUnit) \div 10

determineMovement_NoEarlyReturn(w) ==
    slowRotational(slowVertical(compoundTilt(turnRight(turnLeft(moveDown(moveUp(
        translateZ([w EXCEPT !.calls = <<>>], forwardStep(w)))))))))

determineMovement(w) ==
    LET w0 == translateZ([w EXCEPT !.calls = <<>>], forwardStep(w))
    IN  IF w.flyingIn THEN w0
        ELSE slowRotational(slowVertical(compoundTilt(
                 turnRight(turnLeft(moveDown(moveUp(w0)))))))

\* the camera behind and above the drone, and the one on board
thirdPersonView ==
    [thirdPerson |-> TRUE, camY |-> 160, camZ |-> -190]

firstPersonView ==
    [thirdPerson |-> FALSE, camY |-> 3, camZ |-> 7]

toggleDroneCameraView(w) ==
    IF w.flyingIn THEN w
    ELSE [w EXCEPT !.camera = IF @.thirdPerson THEN firstPersonView ELSE thirdPersonView]

toggleDoubleSpeed(w) ==
    IF w.flyingIn THEN w
    ELSE LET fast == ~w.doubleSpeed
         IN  propellerAnimation_setSpeed(
                 [w EXCEPT !.doubleSpeed = fast,
                           !.charRotateYMax = IF fast THEN Num(2, 100) ELSE Num(1, 100)],
                 IF fast THEN "fast" ELSE "medium")

\* activeKeysPressed.indexOf(keyCode): the first index holding keyCode, from 0, or -1
indexOf(keys, keyCode) ==
    IF includes(keys, keyCode)
    THEN (CHOOSE i \in 1..Len(keys) :
              keys[i] = keyCode /\ \A j \in 1..(i - 1) : keys[j] # keyCode) - 1
    ELSE -1

\* activeKeysPressed.splice(index, 1): a negative index counts from the end
splice1(keys, index) ==
    LET from == IF index < 0 THEN Max(Len(keys) + index, 0) ELSE Min(index, Len(keys))
    IN  SubSeq(keys, 1, from) \o SubSeq(keys, from + 2, Len(keys))

keyUp(w, keyCode) ==
    LET w1 == IF keyCode = KeySpace THEN toggleDoubleSpeed(w) ELSE w
        w2 == IF keyCode = KeyZ THEN toggleDroneCameraView(w1) ELSE w1
    IN  [w2 EXCEPT !.activeKeysPressed = splice1(@, indexOf(@, keyCode))]

\* ------------------------------------------------------------------- Init
\* the node names of the loaded model: all four rotors named as expected, one
\* rotor missing, or none named as expected
sceneModels ==
    { {"Drone_Body_0", "propeller_front_left", "propeller_front_right",
       "propeller_back_left", "propeller_back_right"},
      {"Drone_Body_0", "propeller_front_left", "propeller_back_left", "propeller_back_right"},
      {"Drone_Body_0"} }

\* setCharacter up to the construction of the three controllers:
\* character.position.set(0, 25, 0); setupPropellerAnimation(character);
\* setupDroneTilt(character); setupHoverEffect(character, {amplitude: 0.05, frequency: 0.003}).
\* The scene loaded is `nodes`; the drone is at `altitude`, with the keys
\* `keys` held and the game's two flags as given; with `fast`, speed mode has
\* been switched on (toggleDoubleSpeed).
Setup(nodes, altitude, keys, fly, moving, fast) ==
    /\ propellers = findPropellers(defaultPropNames, nodes)
    /\ currentSpeed = IF fast THEN rotationSpeeds.fast ELSE rotationSpeeds.idle
    /\ isAnimating = FALSE
    /\ currentTilt = [x |-> Num(0, 1), z |-> Num(0, 1)]
    /\ config = hoverConfig([amplitude |-> 50, frequency |-> 3, lateralAmount |-> 0])
    /\ position = [x |-> 0, y |-> altitude, z |-> 0]
    /\ rotation = [x |-> Num(0, 1), y |-> Num(0, 1), z |-> Num(0, 1)]
    /\ baseY = position.y
    /\ time = 0
    /\ isActive = FALSE
    /\ animationFrame = 0
    /\ rafQueue = <<>>
    /\ nextHandle = 1
    /\ activeKeysPressed = keys
    /\ doubleSpeed = fast
    /\ flyingIn = fly
    /\ movingCharDueToDistance = moving
    /\ charPosYIncrement = Num(0, 1)
    /\ charRotateYIncrement = Num(0, 1)
    /\ charRotateYMax = IF fast THEN Num(2, 100) ELSE Num(1, 100)
    /\ camera = thirdPersonView
    /\ calls = <<>>
    /\ moveCalls = 0
    /\ keyCalls = 0
    /\ last = [op |-> "setCharacter", arg |-> <<>>, pre |-> World]
    /\ expectedBase = position.y
    /\ speedCalls = 0
    /\ tiltCalls = 0

\* character.position.set(0, 25, 0)
startAltitude ==
    25 * PosUnit

Init ==
    \E nodes \in sceneModels : Setup(nodes, startAltitude, <<>>, FALSE, FALSE, FALSE)

\* ---------------------------------------------------------------- actions
\* operation op was called with argument arg and left the program in state w
Call(op, arg, w) ==
    /\ Becomes(w)
    /\ last' = [op |-> op, arg |-> arg, pre |-> World]

PropellerStart ==
    /\ nextHandle <= MaxHandles
    /\ Call("propellerAnimation.start", <<>>, propellerAnimation_start(World))
    /\ UNCHANGED <<expectedBase, speedCalls, tiltCalls>>

PropellerStop ==
    /\ Call("propellerAnimation.stop", <<>>, propellerAnimation_stop(World))
    /\ UNCHANGED <<expectedBase, speedCalls, tiltCalls>>

\* names passed to setSpeed: the four presets, a name that is no property at
\* all, and names that are no preset but exist on every object
speedLevels ==
    {"idle", "slow", "medium", "fast", "bogus"} \cup ObjectPrototypeNames

SetSpeed ==
    \E speedLevel \in speedLevels :
        /\ speedCalls < MaxSpeedCalls
        /\ Call("propellerAnimation.setSpeed", speedLevel,
                propellerAnimation_setSpeed(World, speedLevel))
        /\ speedCalls' = speedCalls + 1
        /\ UNCHANGED <<expectedBase, tiltCalls>>

\* accelerate() and decelerate() with their default factors
Accelerate ==
    /\ speedCalls < MaxSpeedCalls
    /\ Call("propellerAnimation.accelerate", accelerateDefault,
            propellerAnimation_accelerate(World, accelerateDefault))
    /\ speedCalls' = speedCalls + 1
    /\ UNCHANGED <<expectedBase, tiltCalls>>

Decelerate ==
    /\ speedCalls < MaxSpeedCalls
    /\ Call("propellerAnimation.decelerate", decelerateDefault,
            propellerAnimation_decelerate(World, decelerateDefault))
    /\ speedCalls' = speedCalls + 1
    /\ UNCHANGED <<expectedBase, tiltCalls>>

\* positive factors a caller may pass: below 1, the defaults, above 1
factors ==
    {Num(1, 2), Num(8, 10), Num(12, 10), Num(2, 1)}

AccelerateBy ==
    \E factor \in factors :
        /\ speedCalls < MaxSpeedCalls
        /\ Call("propellerAnimation.accelerate", factor,
                propellerAnimation_accelerate(World, factor))
        /\ speedCalls' = speedCalls + 1
        /\ UNCHANGED <<expectedBase, tiltCalls>>

DecelerateBy ==
    \E factor \in factors :
        /\ speedCalls < MaxSpeedCalls
        /\ Call("propellerAnimation.decelerate", factor,
                propellerAnimation_decelerate(World, factor))
        /\ speedCalls' = speedCalls + 1
        /\ UNCHANGED <<expectedBase, tiltCalls>>

Tilt ==
    \E op \in TiltOps :
        /\ tiltCalls < MaxTiltCalls
        /\ Call(op, <<>>, droneTilt(World, op))
        /\ tiltCalls' = tiltCalls + 1
        /\ UNCHANGED <<expectedBase, speedCalls>>

\* the first tilt operation after construction, and tiltForward() called again
FirstTilt ==
    \E op \in TiltOps :
        /\ tiltCalls = 0
        /\ Call(op, <<>>, droneTilt(World, op))
        /\ tiltCalls' = 1
        /\ UNCHANGED <<expectedBase, speedCalls>>

TiltForwardAgain ==
    /\ tiltCalls \in 1..(MaxForwardCalls - 1)
    /\ Call("tiltForward", <<>>, tiltForward(World))
    /\ tiltCalls' = tiltCalls + 1
    /\ UNCHANGED <<expectedBase, speedCalls>>

StabilizeAgain ==
    /\ tiltCalls \in 1..(MaxStabilizeCalls - 1)
    /\ Call("stabilize", <<>>, stabilize(World))
    /\ tiltCalls' = tiltCalls + 1
    /\ UNCHANGED <<expectedBase, speedCalls>>

ResetTilt ==
    /\ tiltCalls \in 1..MaxTiltCalls
    /\ Call("resetTilt", <<>>, resetTilt(World))
    /\ tiltCalls' = tiltCalls + 1
    /\ UNCHANGED <<expectedBase, speedCalls>>

\* one of the four single-axis operations, after the first tilt operation
AxisTilt ==
    \E op \in {"tiltForward", "tiltBackward", "tiltLeft", "tiltRight"} :
        /\ tiltCalls \in 1..(MaxTiltCalls - 1)
        /\ Call(op, <<>>, droneTilt(World, op))
        /\ tiltCalls' = tiltCalls + 1
        /\ UNCHANGED <<expectedBase, speedCalls>>

HoverStart ==
    /\ nextHandle <= MaxHandles
    /\ Call("hoverEffect.start", <<>>, hoverEffect_start(World))
    /\ expectedBase' = IF isActive THEN expectedBase ELSE position.y
    /\ UNCHANGED <<speedCalls, tiltCalls>>

HoverStop ==
    /\ Call("hoverEffect.stop", <<>>, hoverEffect_stop(World))
    /\ UNCHANGED <<expectedBase, speedCalls, tiltCalls>>

\* altitudes passed to setBaseHeight
baseHeights ==
    {20 * PosUnit, 30 * PosUnit}

SetBaseHeight ==
    \E height \in baseHeights :
        /\ Call("hoverEffect.setBaseHeight", height, hoverEffect_setBaseHeight(World, height))
        /\ expectedBase' = height
        /\ UNCHANGED <<speedCalls, tiltCalls>>

\* partial configurations passed to updateConfig: any of the three fields, each
\* with a value other than its default (in thousandths)
newConfigValues ==
    [amplitude |-> 100, frequency |-> 5, lateralAmount |-> 50]

newConfigs ==
    { [f \in fields |-> newConfigValues[f]] : fields \in SUBSET DOMAIN newConfigValues }

UpdateConfig ==
    \E newConfig \in newConfigs :
        /\ Call("hoverEffect.updateConfig", newConfig,
                hoverEffect_updateConfig(World, newConfig))
        /\ UNCHANGED <<expectedBase, speedCalls, tiltCalls>>

\* the host runs one frame
Frame ==
    /\ nextHandle <= MaxHandles
    /\ Call("frame", <<>>, runFrame(World))
    /\ UNCHANGED <<expectedBase, speedCalls, tiltCalls>>

\* one frame of the game loop: determineMovement()
MoveFrameWithin(bound) ==
    /\ moveCalls < bound
    /\ Call("determineMovement", <<>>, [determineMovement(World) EXCEPT !.moveCalls = @ + 1])
    /\ UNCHANGED <<expectedBase, speedCalls, tiltCalls>>

MoveFrame ==
    MoveFrameWithin(MaxMoveFrames)

HoldFrame ==
    MoveFrameWithin(MaxHoldFrames)

keyCodes ==
    {KeyLeft, KeyUp, KeyRight, KeyDown, KeySpace, KeyZ}

\* a key is released
KeyReleased ==
    \E keyCode \in keyCodes :
        /\ keyCalls < MaxKeyEvents
        /\ Call("keyUp", keyCode, [keyUp(World, keyCode) EXCEPT !.keyCalls = @ + 1])
        /\ UNCHANGED <<expectedBase, speedCalls, tiltCalls>>

\* the up or the down arrow is released
VerticalKeyReleased ==
    \E keyCode \in {KeyUp, KeyDown} :
        /\ keyCalls < MaxKeyEvents
        /\ Call("keyUp", keyCode, [keyUp(World, keyCode) EXCEPT !.keyCalls = @ + 1])
        /\ UNCHANGED <<expectedBase, speedCalls, tiltCalls>>

\* the arrow keys held, in ascending order of their codes
heldKeys ==
    { keys \in UNION { [1..n -> {KeyLeft, KeyUp, KeyRight, KeyDown}] : n \in 0..4 } :
          \A i \in 1..(Len(keys) - 1) : keys[i] < keys[i + 1] }

\* altitudes in play: the start, just above the floor, mid-air, just below the ceiling
altitudes ==
    {startAltitude, lowerAltitude + PosUnit \div 100, 50 * PosUnit,
     upperAltitude - PosUnit \div 100}

stockScene ==
    {"Drone_Body_0"} \cup {defaultPropNames[i] : i \in 1..Len(defaultPropNames)}

\* in play: any arrow keys held, each flag and the speed mode set or clear
InitFlight ==
    \E keys \in heldKeys, fly \in BOOLEAN, moving \in BOOLEAN, fast \in BOOLEAN,
       altitude \in altitudes :
        Setup(stockScene, altitude, keys, fly, moving, fast)

\* in play with 'up' held or nothing held, both flags clear
InitHold ==
    \E keys \in {<<>>, <<KeyUp>>}, altitude \in altitudes :
        Setup(stockScene, altitude, keys, FALSE, FALSE, FALSE)

\* the end of setCharacter: propellerAnimation.start(); hoverEffect.start()
StartAnimations ==
    /\ ~isAnimating
    /\ ~isActive
    /\ moveCalls = 0
    /\ Call("setCharacter.start", <<>>, hoverEffect_start(propellerAnimation_start(World)))
    /\ expectedBase' = position.y
    /\ UNCHANGED <<speedCalls, tiltCalls>>

\* one frame of the running game, the integrator before the frame callbacks:
\* determineMovement(), then the host runs the callbacks scheduled
gameFrame(w) ==
    runFrame(determineMovement(w))

GameFrame ==
    /\ isAnimating
    /\ isActive
    /\ moveCalls < MaxMoveFrames
    /\ Call("gameFrame", <<>>, [gameFrame(World) EXCEPT !.moveCalls = @ + 1])
    /\ UNCHANGED <<expectedBase, speedCalls, tiltCalls>>

\* a scene in which no node has a rotor's name
InitBare ==
    Setup({"Drone_Body_0"}, startAltitude, <<>>, FALSE, FALSE, FALSE)

\* the space bar's effect: toggleDoubleSpeed()
ToggleSpeed ==
    /\ keyCalls < MaxKeyEvents
    /\ Call("toggleDoubleSpeed", <<>>, [toggleDoubleSpeed(World) EXCEPT !.keyCalls = @ + 1])
    /\ UNCHANGED <<expectedBase, speedCalls, tiltCalls>>

\* in play at mid-air with 'left' held or nothing held, in either speed mode
InitTurn ==
    \E keys \in {<<>>, <<KeyLeft>>}, fast \in BOOLEAN :
        Setup(stockScene, 50 * PosUnit, keys, FALSE, FALSE, fast)

\* node i of a model
Node(i, name, kind) ==
    [id |-> i, name |-> name, isMesh |-> kind.isMesh, x |-> kind.x, z |-> kind.z,
     rotationY |-> Zero]

\* what a node can be: an empty far from the centre; meshes at distance 0.5
\* exactly, at 0.6, and two at distance 1
nodeKinds ==
    { [isMesh |-> FALSE, x |-> 0, z |-> 10],
      [isMesh |-> TRUE, x |-> 3, z |-> 4], [isMesh |-> TRUE, x |-> 6, z |-> 0],
      [isMesh |-> TRUE, x |-> 0, z |-> 10], [isMesh |-> TRUE, x |-> -8, z |-> -6] }

\* models none of whose nodes has a rotor's name
unnamedModels ==
    UNION { { [i \in 1..n |-> Node(i, "part", kinds[i])] : kinds \in [1..n -> nodeKinds] } :
            n \in 0..MaxNodes }

\* models of up to three nodes, some with a rotor's name, a name possibly twice
namedModels ==
    UNION { { [i \in 1..n |-> Node(i, nodes[i].name, nodes[i].kind)] :
                nodes \in [1..n -> [name : {"Object_50", "Object_51", "part"},
                                    kind : { [isMesh |-> TRUE, x |-> 6, z |-> 0],
                                             [isMesh |-> FALSE, x |-> 0, z |-> 0] }]] } :
            n \in 1..3 }

\* the second argument: none, a list in an order of the caller's, an empty list
propellerNameLists ==
    { [defined |-> FALSE, names |-> <<>>],
      [defined |-> TRUE, names |-> <<"Object_51", "Object_50">>],
      [defined |-> TRUE, names |-> <<>>] }

\* setupPropellerAnimation(droneModel, propellerNames), called once: a model
\* with named nodes with each name list, one without with the default list
SetupPropellers ==
    /\ last.op = "setCharacter"
    /\ \E droneModel \in unnamedModels \cup namedModels, propellerNames \in propellerNameLists :
           /\ droneModel \in namedModels \/ ~propellerNames.defined
           /\ Call("setupPropellerAnimation",
                   [droneModel |-> droneModel, propellerNames |-> propellerNames],
                   [World EXCEPT !.propellers = setupPropellers(droneModel, propellerNames)])
           /\ UNCHANGED <<expectedBase, speedCalls, tiltCalls>>

\* altitudes inside the band from which a full ramp ends a step short of the
\* floor or of the ceiling, and the two ends of the band
bandAltitudes ==
    {lowerAltitude, lowerAltitude + (3 * PosUnit + PosUnit \div 100),
     upperAltitude - (3 * PosUnit + PosUnit \div 100), upperAltitude}

\* in play inside the band with a vertical key held, the repositioning flag
\* set or clear
InitClimb ==
    \E keys \in {<<KeyUp>>, <<KeyDown>>, <<KeyUp, KeyDown>>}, moving \in BOOLEAN,
       altitude \in bandAltitudes :
        Setup(stockScene, altitude, keys, FALSE, moving, FALSE)

\* --------------------------------------------------------- specifications
\* the propeller drive spinning up and down
NextSpin ==
    PropellerStart \/ PropellerStop \/ Accelerate \/ Decelerate \/ Frame

SpecSpin ==
    Init /\ [][NextSpin]_vars

\* the game loop with any keys held
NextFlight ==
    MoveFrame \/ KeyReleased

SpecFlight ==
    InitFlight /\ [][NextFlight]_vars

\* the game loop with 'up' held and then released
NextHold ==
    HoldFrame \/ KeyReleased

SpecHold ==
    InitHold /\ [][NextHold]_vars

\* the running game: setCharacter has started the animations, then frames
NextGame ==
    StartAnimations \/ GameFrame \/ KeyReleased

SpecGame ==
    InitFlight /\ [][NextGame]_vars

\* the hover oscillator alone, reconfigured while it runs
NextHover ==
    HoverStart \/ HoverStop \/ SetBaseHeight \/ UpdateConfig \/ Frame

SpecHover ==
    Init /\ [][NextHover]_vars

\* the game loop turning left, the speed mode toggled on the way
NextTurn ==
    HoldFrame \/ ToggleSpeed

SpecTurn ==
    InitTurn /\ [][NextTurn]_vars

\* the game loop climbing or descending to the edge of the band
NextClimb ==
    HoldFrame \/ VerticalKeyReleased

SpecClimb ==
    InitClimb /\ [][NextClimb]_vars

\* the propeller drive alone, accelerate/decelerate with their default factors
NextDrive ==
    PropellerStart \/ PropellerStop \/ SetSpeed \/ Accelerate \/ Decelerate \/ Frame

SpecDrive ==
    Init /\ [][NextDrive]_vars

\* the propeller drive of a model without rotors
SpecBare ==
    InitBare /\ [][NextDrive]_vars

\* accelerate/decelerate with caller-chosen factors
NextFactor ==
    AccelerateBy \/ DecelerateBy

SpecFactor ==
    Init /\ [][NextFactor]_vars

\* the two self-scheduling components under the host's frames
NextAnim ==
    \/ PropellerStart \/ PropellerStop
    \/ HoverStart \/ HoverStop \/ SetBaseHeight
    \/ Frame

SpecAnim ==
    Init /\ [][NextAnim]_vars

\* the attitude controller alone
NextTilt ==
    Tilt

SpecTilt ==
    Init /\ [][NextTilt]_vars

\* one tilt operation, then tiltForward() over and over
NextForward ==
    FirstTilt \/ TiltForwardAgain

SpecForward ==
    Init /\ [][NextForward]_vars

\* the stock scene, in which all four rotors resolve
InitStock ==
    Init /\ Len(propellers) = Len(defaultPropNames)

\* one tilt operation, then stabilize() over and over, with a resetTilt()
NextLevel ==
    FirstTilt \/ StabilizeAgain \/ ResetTilt

SpecLevel ==
    InitStock /\ [][NextLevel]_vars

\* rotor discovery by name and by position
NextRotors ==
    SetupPropellers

SpecRotors ==
    InitStock /\ [][NextRotors]_vars

\* one tilt operation, then single-axis operations in any order
NextAxis ==
    FirstTilt \/ AxisTilt

SpecAxis ==
    InitStock /\ [][NextAxis]_vars

Next ==
    \/ MoveFrame
    \/ KeyReleased
    \/ FirstTilt
    \/ TiltForwardAgain
    \/ StabilizeAgain
    \/ ResetTilt
    \/ HoldFrame
    \/ PropellerStart \/ PropellerStop \/ SetSpeed \/ AccelerateBy \/ DecelerateBy
    \/ Tilt
    \/ HoverStart \/ HoverStop \/ SetBaseHeight
    \/ Frame

Spec ==
    Init /\ [][Next]_vars

\* ----------------------------------------------------------------- claims
\* how many callbacks of function fn the host queue holds
Scheduled(queue, fn) ==
    Cardinality({i \in DOMAIN queue : queue[i].fn = fn})

\* v clamped into [idle, fast]
ClampToPresets(v) ==
    MathMax(MathMin(v, rotationSpeeds.fast), rotationSpeeds.idle)

\* C1: after any sequence of accelerate() and decelerate() with their default
\* factors, interleaved with setSpeed() of any name, idle <= getSpeed() <= fast.
C1_SpeedWithinPresets ==
    /\ Le(rotationSpeeds.idle, propellerAnimation_getSpeed(World))
    /\ Le(propellerAnimation_getSpeed(World), rotationSpeeds.fast)

\* C2: for every positive factor, accelerate(factor) and decelerate(factor) each
\* set currentSpeed to currentSpeed * factor clamped into [idle, fast].
C2_FactorClamped ==
    last.op \in {"propellerAnimation.accelerate", "propellerAnimation.decelerate"} =>
        /\ currentSpeed = ClampToPresets(Mul(last.pre.currentSpeed, last.arg))
        /\ Le(rotationSpeeds.idle, currentSpeed)
        /\ Le(currentSpeed, rotationSpeeds.fast)

\* C3: setSpeed(name) sets currentSpeed to the preset when name is idle, slow,
\* medium or fast, and for any other name leaves getSpeed() and the active flag
\* unchanged.
C3_SetSpeedContract ==
    last.op = "propellerAnimation.setSpeed" =>
        IF last.arg \in {"idle", "slow", "medium", "fast"}
        THEN currentSpeed = rotationSpeeds[last.arg] /\ isAnimating = last.pre.isAnimating
        ELSE currentSpeed = last.pre.currentSpeed /\ isAnimating = last.pre.isAnimating

\* C4: start() on a drive that is already active changes nothing: rotor
\* rotations, the active flag and the scheduled callbacks are as before, so a
\* frame of an active drive advances every rotor exactly once.
C4_StartIdempotent ==
    /\ (last.op = "propellerAnimation.start" /\ last.pre.isAnimating) =>
           /\ propellers = last.pre.propellers
           /\ isAnimating = last.pre.isAnimating
           /\ rafQueue = last.pre.rafQueue
    /\ (last.op = "frame" /\ last.pre.isAnimating) =>
           propellers = rotatePropellers(last.pre.propellers, last.pre.currentSpeed)

\* C5: under every interleaving of start(), stop() and frames, the propeller
\* drive and the hover oscillator each hold at most one scheduled frame callback.
C5_OneOutstandingCallback ==
    /\ Scheduled(rafQueue, "animatePropellers") <= 1
    /\ Scheduled(rafQueue, "updateHover") <= 1

\* C6: while a component is stopped (stop() called and no start() since), no
\* frame - also one that runs a callback scheduled before the stop - changes
\* any rotor's rotation (drive stopped) or the vehicle's position (hover stopped).
C6_StoppedFrameChangesNothing ==
    last.op = "frame" =>
        /\ ~last.pre.isAnimating => propellers = last.pre.propellers
        /\ ~last.pre.isActive => position = last.pre.position

\* a frame ran a callback of the stopped drive, with the hover started and stopped before
C6_Witness ==
    /\ last.op = "frame"
    /\ ~last.pre.isAnimating
    /\ Scheduled(last.pre.rafQueue, "animatePropellers") > 0
    /\ Len(propellers) > 0
    /\ ~last.pre.isActive
    /\ last.pre.animationFrame # 0

\* C7: stop() on an inactive drive or an inactive hover oscillator changes
\* nothing: the active flag, the scheduled callbacks and the vehicle's position
\* are as before the call.
C7_StopInactiveNoOp ==
    /\ (last.op = "propellerAnimation.stop" /\ ~last.pre.isAnimating) =>
           /\ isAnimating = last.pre.isAnimating
           /\ rafQueue = last.pre.rafQueue
           /\ position = last.pre.position
    /\ (last.op = "hoverEffect.stop" /\ ~last.pre.isActive) =>
           /\ isActive = last.pre.isActive
           /\ rafQueue = last.pre.rafQueue
           /\ position = last.pre.position

\* C8: stop() on an active hover oscillator leaves position.y exactly at the
\* base altitude: the position.y captured by the last effective start(), or the
\* argument of the last setBaseHeight issued since.
C8_StopRestoresBase ==
    (last.op = "hoverEffect.stop" /\ last.pre.isActive) => position.y = expectedBase

\* stop() found position.y off the base, the base having been set by setBaseHeight
C8_Witness ==
    /\ last.op = "hoverEffect.stop"
    /\ last.pre.isActive
    /\ last.pre.time > frameTime
    /\ last.pre.position.y # expectedBase
    /\ expectedBase \in baseHeights
    /\ position.y = expectedBase

\* C9: start() on an active hover oscillator changes nothing: the base altitude
\* is not recaptured, the phase does not advance, the position is not written
\* and no callback is scheduled.
C9_HoverStartWhileActiveNoOp ==
    (last.op = "hoverEffect.start" /\ last.pre.isActive) =>
        /\ baseY = last.pre.baseY
        /\ time = last.pre.time
        /\ position = last.pre.position
        /\ rafQueue = last.pre.rafQueue
        /\ nextHandle = last.pre.nextHandle
        /\ animationFrame = last.pre.animationFrame
        /\ isActive

\* start() was called on an active oscillator whose position.y was off the base
C9_Witness ==
    /\ last.op = "hoverEffect.start"
    /\ last.pre.isActive
    /\ last.pre.position.y # last.pre.baseY
    /\ baseY = last.pre.baseY

\* C10: after any sequence of the eight directional tilt operations,
\* stabilize() and resetTilt(), pitch is within [-0.1, 0.2] and roll within
\* [-0.15, 0.15].
C10_TiltWithinMaxima ==
    /\ Le(maxTiltAngles.backward, getCurrentTilt(World).x)
    /\ Le(getCurrentTilt(World).x, maxTiltAngles.forward)
    /\ Le(maxTiltAngles.right, getCurrentTilt(World).z)
    /\ Le(getCurrentTilt(World).z, maxTiltAngles.left)

\* a backward-right tilt took pitch and roll negative after other tilt operations
C10_Witness ==
    /\ last.op = "tiltBackwardRight"
    /\ tiltCalls = MaxTiltCalls
    /\ Lt(currentTilt.x, Num(0, 1))
    /\ Lt(currentTilt.z, Num(0, 1))
    /\ Lt(Num(0, 1), last.pre.currentTilt.x)

\* 2^-52, Number.EPSILON
Epsilon ==
    [k |-> "num", s |-> 1, e |-> -104, m |-> <<0, 0, 0, 1024>>]

\* C11 as stated: every tiltForward() from a pitch below 0.2 leaves pitch
\* strictly greater than before and strictly less than 0.2.
C11_ForwardStrictlyIncreasing ==
    (last.op = "tiltForward" /\ Lt(last.pre.currentTilt.x, maxTiltAngles.forward))
        => /\ Lt(last.pre.currentTilt.x, currentTilt.x)
           /\ Lt(currentTilt.x, maxTiltAngles.forward)

\* C11 as amended: every tiltForward() from a pitch below 0.2 leaves pitch no
\* smaller than before and strictly less than 0.2, and strictly greater than
\* before whenever the pitch was more than 2^-52 below 0.2.
C11_ForwardNeverDecreasing ==
    (last.op = "tiltForward" /\ Lt(last.pre.currentTilt.x, maxTiltAngles.forward))
        => /\ Le(last.pre.currentTilt.x, currentTilt.x)
           /\ Lt(currentTilt.x, maxTiltAngles.forward)
           /\ Lt(Epsilon, Sub(maxTiltAngles.forward, last.pre.currentTilt.x))
                  => Lt(last.pre.currentTilt.x, currentTilt.x)

\* a tiltForward() that left the pitch where it was, just below 0.2
C11_Witness ==
    /\ last.op = "tiltForward"
    /\ currentTilt.x = last.pre.currentTilt.x
    /\ Lt(currentTilt.x, maxTiltAngles.forward)
    /\ Le(Sub(maxTiltAngles.forward, currentTilt.x), Epsilon)

\* |v|
Magnitude(v) ==
    [v EXCEPT !.s = 1]

\* stabilize() took component c of the tilt from a to b
Decayed(a, b) ==
    /\ b = Mul(a, Num(95, 100))
    /\ Le(Magnitude(b), Magnitude(a))
    /\ b.s = a.s
    /\ ~IsZero(a) => ~IsZero(b)

\* C12: each stabilize() multiplies pitch and roll by 0.95, so neither
\* magnitude increases, each component keeps its sign and a nonzero component
\* never becomes exactly zero; a tilt that was not (0, 0) becomes exactly
\* (0, 0) only by resetTilt().
C12_StabilizeDecays ==
    /\ last.op = "stabilize"
           => /\ Decayed(last.pre.currentTilt.x, currentTilt.x)
              /\ Decayed(last.pre.currentTilt.z, currentTilt.z)
    /\ (/\ IsZero(currentTilt.x) /\ IsZero(currentTilt.z)
        /\ ~(IsZero(last.pre.currentTilt.x) /\ IsZero(last.pre.currentTilt.z)))
           => last.op = "resetTilt"

\* stabilize() on a tilt decayed to the smallest subnormals left it nonzero
C12_Witness ==
    /\ last.op = "stabilize"
    /\ ~IsZero(currentTilt.x)
    /\ ~IsZero(currentTilt.z)
    /\ currentTilt.x.e = Emin
    /\ currentTilt.z.e = Emin
    /\ currentTilt = last.pre.currentTilt

\* how many times determineMovement invoked the controller operation op
Invocations(log, op) ==
    Cardinality({i \in 1..Len(log) : log[i] = op})

\* the frame just run was a determineMovement with only 'up' held, the fly-in
\* flag clear and the drone below the ceiling
ClimbFrame ==
    /\ last.op = "determineMovement"
    /\ last.pre.activeKeysPressed = <<KeyUp>>
    /\ ~last.pre.flyingIn
    /\ last.pre.position.y < upperAltitude

\* C13: in every frame with only 'up' held, the fly-in flag clear and the
\* drone below 90, position.y ends strictly above where the previous frame
\* left it, and accelerate() and tiltForward() are each invoked exactly once.
C13_ClimbEveryFrame ==
    ClimbFrame
        => /\ position.y > last.pre.position.y
           /\ Invocations(calls, "accelerate") = 1
           /\ Invocations(calls, "tiltForward") = 1

\* key code k was held when the frame just run began
Held(k) ==
    includes(last.pre.activeKeysPressed, k)

\* C14: a frame with 'up' and 'down' both held, both flags clear and the
\* altitude strictly between 27 and 90 leaves position.y where it was, leaves
\* the vertical accumulator lower than before (or at 0), and invokes
\* decelerate().
C14_UpDownNetNeutral ==
    (/\ last.op = "determineMovement"
     /\ Held(KeyUp) /\ Held(KeyDown)
     /\ ~last.pre.flyingIn /\ ~last.pre.movingCharDueToDistance
     /\ last.pre.position.y > lowerAltitude /\ last.pre.position.y < upperAltitude)
        => /\ position.y = last.pre.position.y
           /\ \/ Lt(charPosYIncrement, last.pre.charPosYIncrement)
              \/ IsZero(charPosYIncrement) /\ IsZero(last.pre.charPosYIncrement)
           /\ Invocations(calls, "decelerate") >= 1

\* C15: no determineMovement frame invokes both accelerate() and
\* decelerate(), or either of them more than once.
C15_OneSpeedChangePerFrame ==
    last.op = "determineMovement"
        => /\ Invocations(calls, "accelerate") <= 1
           /\ Invocations(calls, "decelerate") <= 1
           /\ Invocations(calls, "accelerate") = 0 \/ Invocations(calls, "decelerate") = 0

\* the compound tilt that matches the vertical key v and the horizontal key h
compoundOf(v, h) ==
    IF v = KeyUp
    THEN IF h = KeyLeft THEN "tiltForwardLeft" ELSE "tiltForwardRight"
    ELSE IF h = KeyLeft THEN "tiltBackwardLeft" ELSE "tiltBackwardRight"

\* C16: a frame with exactly one vertical key v and exactly one horizontal
\* key h held applies the matching compound tilt and nothing else to the
\* tilt: one smoothing step, none of tiltForward/Backward/Left/Right.
C16_CompoundTiltOnly ==
    \A v \in {KeyUp, KeyDown}, h \in {KeyLeft, KeyRight} :
        (/\ last.op = "determineMovement"
         /\ ~last.pre.flyingIn
         /\ \A k \in {KeyUp, KeyDown} : Held(k) <=> k = v
         /\ \A k \in {KeyLeft, KeyRight} : Held(k) <=> k = h)
            => /\ Invocations(calls, compoundOf(v, h)) = 1
               /\ \A op \in TiltOps \ {compoundOf(v, h)} : Invocations(calls, op) = 0

IdleFrame ==
    /\ last.op = "determineMovement"
    /\ last.pre.activeKeysPressed = <<>>
    /\ ~last.pre.flyingIn

\* C19 as stated: a frame with no input that starts with the propeller speed
\* above idle ends with a lower speed that is still above idle.
C19_SpeedNeverReachesIdle ==
    (IdleFrame /\ Lt(rotationSpeeds.idle, last.pre.currentSpeed))
        => /\ Lt(propellerAnimation_getSpeed(World), last.pre.currentSpeed)
           /\ Lt(rotationSpeeds.idle, propellerAnimation_getSpeed(World))

\* C19 as amended: a frame with no input that starts with the propeller
\* speed above idle ends with a lower speed that is not below idle: 0.8 times
\* the speed, or exactly idle if that product is below idle; at idle the
\* speed stays.
C19_SpeedDecaysToIdle ==
    IdleFrame
        => IF Lt(rotationSpeeds.idle, last.pre.currentSpeed)
           THEN /\ Lt(propellerAnimation_getSpeed(World), last.pre.currentSpeed)
                /\ Le(rotationSpeeds.idle, propellerAnimation_getSpeed(World))
                /\ \/ propellerAnimation_getSpeed(World) = Mul(last.pre.currentSpeed, decelerateDefault)
                   \/ propellerAnimation_getSpeed(World) = rotationSpeeds.idle
           ELSE propellerAnimation_getSpeed(World) = last.pre.currentSpeed

\* a frame with no input took the speed from above idle to exactly idle
C19_Witness ==
    /\ IdleFrame
    /\ Lt(rotationSpeeds.idle, last.pre.currentSpeed)
    /\ propellerAnimation_getSpeed(World) = rotationSpeeds.idle

\* the yaw a rotor reaches from yaw by adding step once per tick
RECURSIVE Turned(_, _, _)
Turned(yaw, step, ticks) ==
    IF ticks = 0 THEN yaw ELSE Turned(Add(yaw, step), step, ticks - 1)

\* the animatePropellers callbacks a frame runs
Ticks(queue) ==
    Cardinality({i \in 1..Len(queue) : queue[i].fn = "animatePropellers"})

\* C20: every tick of an active drive adds currentSpeed to the yaw of the
\* rotors at even positions of the discovery order (rotor[0], rotor[2]) and
\* subtracts it from the yaw of those at odd positions (rotor[1], rotor[3]),
\* with the speed current at the tick: the former turn one way, the latter
\* the other.
C20_RotorsAlternate ==
    (last.op = "frame" /\ last.pre.isAnimating)
        => \A i \in 1..Len(propellers) :
               LET before == last.pre.propellers[i].rotationY
                   after  == propellers[i].rotationY
                   speed  == last.pre.currentSpeed
                   ticks  == Ticks(last.pre.rafQueue)
               IN  IF (i - 1) % 2 = 0
                   THEN /\ after = Turned(before, speed, ticks)
                        /\ ticks > 0 => Lt(before, after)
                   ELSE /\ after = Turned(before, Neg(speed), ticks)
                        /\ ticks > 0 => Lt(after, before)

\* a tick at a speed above idle turned four rotors, the first and third one
\* way, the second and fourth the other
C20_Witness ==
    /\ last.op = "frame"
    /\ last.pre.isAnimating
    /\ Ticks(last.pre.rafQueue) = 1
    /\ Lt(rotationSpeeds.idle, last.pre.currentSpeed)
    /\ Len(propellers) = 4
    /\ Lt(last.pre.propellers[3].rotationY, propellers[3].rotationY)
    /\ Lt(propellers[4].rotationY, last.pre.propellers[4].rotationY)

\* ------------------------------------------------------------------ C21
\* the altitude the oscillation rides on: position.y less the sine offset
RidingAltitude(w) ==
    w.position.y - verticalOffset(w, w.time)

\* C21: with the hover oscillator active and the integrator run before the
\* hover tick, the altitude gained or lost by 'up'/'down' in a frame is still
\* in position.y after the frame's hover tick: position.y less the sine offset
\* has changed by exactly what determineMovement added.
C21_HoverRidesOnMovement ==
    (last.op = "gameFrame" /\ last.pre.isActive) =>
        RidingAltitude(World) - RidingAltitude(last.pre)
            = determineMovement(last.pre).position.y - last.pre.position.y

\* ------------------------------------------------------------------ C22
\* the hover tick ran in the last frame
HoverTicked ==
    /\ last.op = "frame"
    /\ last.pre.isActive
    /\ \E i \in 1..Len(last.pre.rafQueue) : last.pre.rafQueue[i].fn = "updateHover"

\* C22: updateConfig(partial) replaces exactly the fields of amplitude,
\* frequency and lateralAmount present in partial and keeps the others;
\* neither updateConfig nor setBaseHeight changes the active flag, the phase or
\* the scheduled callback; the next tick computes with the new values.
C22_UpdateConfigMerges ==
    /\ last.op = "hoverEffect.updateConfig" =>
           /\ \A f \in DOMAIN config :
                  config[f] = IF f \in DOMAIN last.arg THEN last.arg[f]
                              ELSE last.pre.config[f]
           /\ isActive = last.pre.isActive
           /\ time = last.pre.time
           /\ rafQueue = last.pre.rafQueue
           /\ animationFrame = last.pre.animationFrame
    /\ last.op = "hoverEffect.setBaseHeight" =>
           /\ baseY = last.arg
           /\ config = last.pre.config
           /\ isActive = last.pre.isActive
           /\ time = last.pre.time
           /\ rafQueue = last.pre.rafQueue
           /\ animationFrame = last.pre.animationFrame
    /\ HoverTicked =>
           position.y = last.pre.baseY
               + (MathSin(time * last.pre.config.frequency) * last.pre.config.amplitude) \div 100

\* a tick ran with the amplitude updateConfig gave, the frequency it did not
\* mention, and a base altitude given by setBaseHeight
C22_Witness ==
    /\ HoverTicked
    /\ last.pre.config = [amplitude |-> 100, frequency |-> 3, lateralAmount |-> 25]
    /\ last.pre.baseY \in baseHeights
    /\ position.y # last.pre.baseY

\* ------------------------------------------------------------------ C23
\* the state w of a drive that found the four rotors of the stock model
WithRotors(w) ==
    [w EXCEPT !.propellers = findPropellers(defaultPropNames, stockScene)]

\* the last operation of the drive, applied to the state w
SameDriveOperation(w) ==
    CASE last.op = "propellerAnimation.start" -> propellerAnimation_start(w)
      [] last.op = "propellerAnimation.stop" -> propellerAnimation_stop(w)
      [] last.op = "propellerAnimation.setSpeed" -> propellerAnimation_setSpeed(w, last.arg)
      [] last.op = "propellerAnimation.accelerate" -> propellerAnimation_accelerate(w, last.arg)
      [] last.op = "propellerAnimation.decelerate" -> propellerAnimation_decelerate(w, last.arg)
      [] last.op = "frame" -> runFrame(w)
      [] OTHER -> w

\* C23: with no rotor found the drive still works: start(), frame ticks,
\* stop(), setSpeed, accelerate, decelerate and getSpeed leave the same active
\* flag, speed and scheduled callbacks as they do with rotors, the tick keeps
\* rescheduling itself while active, and there is still nothing to rotate.
C23_RotorlessDriveWorks ==
    last.pre.propellers = <<>> =>
        LET r == SameDriveOperation(WithRotors(last.pre))
        IN  /\ isAnimating = r.isAnimating
            /\ currentSpeed = r.currentSpeed
            /\ propellerAnimation_getSpeed(World) = propellerAnimation_getSpeed(r)
            /\ rafQueue = r.rafQueue
            /\ nextHandle = r.nextHandle
            /\ propellers = <<>>
            /\ last.op = "propellerAnimation.start" =>
                   isAnimating /\ Scheduled(rafQueue, "animatePropellers") > 0
            /\ (/\ last.op = "frame"
                /\ last.pre.isAnimating
                /\ Scheduled(last.pre.rafQueue, "animatePropellers") > 0) =>
                   Scheduled(rafQueue, "animatePropellers") > 0

\* a frame ticked a rotorless drive that was running above idle speed, and the
\* tick is scheduled again
C23_Witness ==
    /\ last.op = "frame"
    /\ last.pre.propellers = <<>>
    /\ last.pre.isAnimating
    /\ Scheduled(last.pre.rafQueue, "animatePropellers") > 0
    /\ Lt(rotationSpeeds.idle, currentSpeed)
    /\ Scheduled(rafQueue, "animatePropellers") > 0

\* ------------------------------------------------------------------ C24
\* C24: in every state reached by determineMovement frames the vertical-speed
\* accumulator is a multiple of 0.02 with 0 <= accumulator <= 0.3.
C24_VerticalAccumulatorBounds ==
    /\ Le(Zero, charPosYIncrement)
    /\ Le(charPosYIncrement, charPosYMax)
    /\ \E k \in 0..15 : charPosYIncrement = Num(2 * k, 100)

\* ------------------------------------------------------------------ C25
\* the cap of the rotational accumulator in the current mode
ModeMaximum ==
    IF doubleSpeed THEN Num(2, 100) ELSE Num(1, 100)

\* C25: in every state reached by determineMovement frames and speed-mode
\* toggles, 0 <= rotational accumulator <= the maximum of the current mode
\* (0.01 normal, 0.02 speed mode), also right after speed mode is switched off.
C25_RotationalAccumulatorBounds ==
    /\ Le(Zero, charRotateYIncrement)
    /\ Le(charRotateYIncrement, ModeMaximum)

\* ------------------------------------------------------------------ C26
\* C26: right after each of the eight directional operations, stabilize() and
\* resetTilt(), rotation.x is the pitch and rotation.z the roll that
\* getCurrentTilt() returns; resetTilt() makes all four exactly 0.
C26_TiltWrittenThrough ==
    /\ last.op \in TiltOps =>
           /\ rotation.x = getCurrentTilt(World).x
           /\ rotation.z = getCurrentTilt(World).z
    /\ last.op = "resetTilt" =>
           /\ rotation.x = Zero
           /\ rotation.z = Zero
           /\ getCurrentTilt(World) = [x |-> Zero, z |-> Zero]

\* a compound tilt moved pitch and roll of an already tilted drone, and both
\* reached the vehicle
C26_Witness ==
    /\ last.op = "tiltBackwardRight"
    /\ ~IsZero(last.pre.currentTilt.x)
    /\ ~IsZero(last.pre.currentTilt.z)
    /\ rotation.x = currentTilt.x
    /\ rotation.z = currentTilt.z
    /\ rotation.x # last.pre.rotation.x
    /\ rotation.z # last.pre.rotation.z

\* ------------------------------------------------------------------ C27
\* the tilt after the operations first and then second, from state w
TiltAfter(w, first, second) ==
    getCurrentTilt(droneTilt(droneTilt(w, first), second))

\* C27: tiltForward() and tiltBackward() leave the roll unchanged, tiltLeft()
\* and tiltRight() leave the pitch unchanged; so a pitch operation and a roll
\* operation give the same tilt in either order.
C27_SingleAxisIndependent ==
    /\ last.op \in {"tiltForward", "tiltBackward"} => currentTilt.z = last.pre.currentTilt.z
    /\ last.op \in {"tiltLeft", "tiltRight"} => currentTilt.x = last.pre.currentTilt.x
    /\ \A pitchOp \in {"tiltForward", "tiltBackward"}, rollOp \in {"tiltLeft", "tiltRight"} :
           TiltAfter(World, pitchOp, rollOp) = TiltAfter(World, rollOp, pitchOp)

\* tiltForward() changed the pitch of a drone that was rolled, and kept the roll
C27_Witness ==
    /\ last.op = "tiltForward"
    /\ ~IsZero(last.pre.currentTilt.z)
    /\ currentTilt.z = last.pre.currentTilt.z
    /\ currentTilt.x # last.pre.currentTilt.x

\* ------------------------------------------------------------------ C28
\* C28: the hover phase only grows: a tick of an active oscillator adds 0.016,
\* and stop(), start(), setBaseHeight and updateConfig never reset or lower it;
\* a restart recaptures the base altitude and carries on from the old phase
\* (its first tick runs at once).
C28_PhaseOnlyGrows ==
    /\ time >= last.pre.time
    /\ HoverTicked => time = last.pre.time + frameTime
    /\ last.op \in {"hoverEffect.stop", "hoverEffect.setBaseHeight",
                    "hoverEffect.updateConfig"} => time = last.pre.time
    /\ (last.op = "hoverEffect.start" /\ last.pre.isActive) => time = last.pre.time
    /\ (last.op = "hoverEffect.start" /\ ~last.pre.isActive) =>
           /\ time = last.pre.time + frameTime
           /\ baseY = last.pre.position.y

\* an oscillator that had ticked and was stopped is started again
C28_Witness ==
    /\ last.op = "hoverEffect.start"
    /\ ~last.pre.isActive
    /\ last.pre.time > frameTime
    /\ time = last.pre.time + frameTime
    /\ baseY = last.pre.position.y

\* ------------------------------------------------------------------ C29
\* the rotors were found by position in the model of the last call
FoundByPosition ==
    /\ last.op = "setupPropellerAnimation"
    /\ \A i \in DOMAIN propellers : propellers[i].name = "part"

UpBlocked ==
    /\ last.op = "determineMovement"
    /\ includes(last.pre.activeKeysPressed, KeyUp)
    /\ ~includes(last.pre.activeKeysPressed, KeyDown)
    /\ last.pre.position.y >= upperAltitude

\* the last frame found 'down' alone held at or below the floor, or while the
\* drone was being repositioned
DownBlocked ==
    /\ last.op = "determineMovement"
    /\ includes(last.pre.activeKeysPressed, KeyDown)
    /\ ~includes(last.pre.activeKeysPressed, KeyUp)
    /\ last.pre.position.y <= lowerAltitude \/ last.pre.movingCharDueToDistance

NoVerticalKeyFrame ==
    /\ last.op = "determineMovement"
    /\ ~Held(KeyUp)
    /\ ~Held(KeyDown)

\* a frame of determineMovement that began with neither horizontal key held
NoHorizontalKeyFrame ==
    /\ last.op = "determineMovement"
    /\ ~Held(KeyLeft)
    /\ ~Held(KeyRight)

\* C32: a frame with no vertical key held leaves the vertical-speed accumulator
\* at 0 when it was at most one step (0.02), lower than before otherwise, and
\* never negative, so that it reaches 0 within 15 frames and stays 0; likewise
\* the rotational accumulator (step 0.0005) in a frame with no horizontal key
\* held.
C32_AccumulatorsSettleAtZero ==
    /\ NoVerticalKeyFrame =>
           /\ ~Lt(charPosYIncrement, Zero)
           /\ Le(last.pre.charPosYIncrement, charPosYStep) => IsZero(charPosYIncrement)
           /\ Lt(charPosYStep, last.pre.charPosYIncrement) =>
                  Lt(charPosYIncrement, last.pre.charPosYIncrement)
    /\ NoHorizontalKeyFrame =>
           /\ ~Lt(charRotateYIncrement, Zero)
           /\ Le(last.pre.charRotateYIncrement, charRotateYStep) => IsZero(charRotateYIncrement)
           /\ Lt(charRotateYStep, last.pre.charRotateYIncrement) =>
                  Lt(charRotateYIncrement, last.pre.charRotateYIncrement)

\* ------------------------------------------------------------------ C33
\* the frame just run was a determineMovement with no arrow key held and both
\* transition flags clear
NoDirectionFrame ==
    /\ last.op = "determineMovement"
    /\ \A k \in {KeyLeft, KeyUp, KeyRight, KeyDown} : ~Held(k)
    /\ ~last.pre.flyingIn
    /\ ~last.pre.movingCharDueToDistance

\* the tilt angle t after two calls of returnToLevel: t * 0.95 * 0.95
LevelledTwice(t) ==
    Mul(Mul(t, Num(95, 100)), Num(95, 100))

\* C33: a frame with no directional key held and no transition flag invokes
\* stabilize() exactly twice and decelerate() exactly once, and leaves each
\* tilt angle at 0.95 * 0.95 times its value before the frame.
C33_IdleFrameLevelsTwice ==
    NoDirectionFrame
        => /\ Invocations(calls, "stabilize") = 2
           /\ Invocations(calls, "decelerate") = 1
           /\ currentTilt.x = LevelledTwice(last.pre.currentTilt.x)
           /\ currentTilt.z = LevelledTwice(last.pre.currentTilt.z)
           /\ rotation.x = currentTilt.x
           /\ rotation.z = currentTilt.z

\* an idle frame that began with the drone pitched and levelled it twice
C33_Witness ==
    /\ NoDirectionFrame
    /\ ~IsZero(last.pre.currentTilt.x)
    /\ Invocations(calls, "stabilize") = 2
    /\ currentTilt.x = LevelledTwice(last.pre.currentTilt.x)
    /\ currentTilt.x # last.pre.currentTilt.x

\* ------------------------------------------------------------------ C34
\* the list keys without its entries equal to keyCode
Without(keys, keyCode) ==
    SelectSeq(keys, LAMBDA k : k # keyCode)

\* C34: keyUp for a key code that is not in activeKeysPressed leaves the list
\* as it was; keyUp for a held key removes that key's entry and keeps every
\* other held key, in order.
C34_KeyUpRemovesOnlyThatKey ==
    last.op = "keyUp"
        => IF includes(last.pre.activeKeysPressed, last.arg)
           THEN activeKeysPressed = Without(last.pre.activeKeysPressed, last.arg)
           ELSE activeKeysPressed = last.pre.activeKeysPressed

====
